---- MODULE Spec2Model ----
(***************************************************************************)
(* Prompt Paladin: the beforeSubmitPrompt hook (hooks/before_submit_prompt) *)
(* and the judge / heal invocations it calls (mcp_server/tools).            *)
(*                                                                          *)
(* One behaviour is one run of the hook process: CONFIG is loaded at import *)
(* time, main() arms SIGALRM, reads the event, runs process_hook and writes *)
(* the HookResponse.  SIGALRM is an asynchronous step that raises Timeout   *)
(* at whatever position the main thread has reached.  A second              *)
(* specification, ToolSpec, is one call of pp_guard or pp_heal through the  *)
(* MCP server's tools (mcp_server/server), where no alarm is armed.  A      *)
(* third, InstallSpec, is a series of runs of hooks/install.py and          *)
(* hooks/uninstall.py on ~/.cursor/hooks.json, one after the other, each    *)
(* step of a run being a file operation that can fail.                      *)
(*                                                                          *)
(* Text is a sequence of tokens.  " " stands for a whitespace character,    *)
(* every other token for a run of non-whitespace characters.  JSON values   *)
(* are records tagged by the field t; a dict is a record holding Absent     *)
(* under every key it does not have.                                        *)
(***************************************************************************)
EXTENDS Integers, Sequences, FiniteSets, TLC

\* Longest prompt (in tokens) an event carries.
MaxLen == 2

\* Most calls of pp_heal_tool a client makes in a row, each on the healed
\* prompt of the one before.
MaxHeals == 2

\* ------------------------------------------------------------ JSON values

Absent == [t |-> "absent"]
Null == [t |-> "null"]
Str(s) == [t |-> "str", s |-> s]
Num(n) == [t |-> "num", n |-> n]
List(items) == [t |-> "list", items |-> items]
Obj(d) == [t |-> "obj", d |-> d]
Bool(b) == [t |-> "bool", b |-> b]

\* dict.get(key, default)
Get(d, k, default) == IF d[k] = Absent THEN default ELSE d[k]

\* dict.setdefault(key, default), as the dict it leaves behind
SetDefault(d, k, default) == [d EXCEPT ![k] = IF d[k] = Absent THEN default ELSE d[k]]

\* Python truthiness of a JSON value
Truthy(v) ==
    CASE v.t = "absent" -> FALSE
      [] v.t = "null" -> FALSE
      [] v.t = "str" -> Len(v.s) > 0
      [] v.t = "num" -> v.n # 0
      [] v.t = "list" -> Len(v.items) > 0
      [] v.t = "bool" -> v.b
      [] OTHER -> TRUE

\* str(v), as an f-string renders a value
PyStr(v) ==
    CASE v.t = "str" -> v.s
      [] v.t = "null" -> <<"None">>
      [] v.t = "num" -> <<"<number>">>
      [] v.t = "bool" -> <<"<bool>">>
      [] OTHER -> <<"<repr>">>

\* f"{v:.2f}" succeeds: only numbers take the float format
FormatsAsFloat(v) == v.t = "num"

\* len(v) succeeds
HasLen(v) == v.t \in {"str", "list", "obj"}

\* ', '.join(v) succeeds: an iterable whose items are all strings
Joinable(v) ==
    \/ v.t = "str"
    \/ v.t = "list" /\ \A i \in 1..Len(v.items) : v.items[i].t = "str"

\* ------------------------------------------------------------------ text

Chars == {" ", "a", "WHATEVER"}

Prompts == UNION {[1..n -> Chars] : n \in 0..MaxLen}

IsSpace(c) == c = " "

RECURSIVE LStrip(_)
LStrip(s) == IF s # <<>> /\ IsSpace(Head(s)) THEN LStrip(Tail(s)) ELSE s

RECURSIVE RStrip(_)
RStrip(s) ==
    IF s # <<>> /\ IsSpace(s[Len(s)]) THEN RStrip(SubSeq(s, 1, Len(s) - 1)) ELSE s

\* A hook that forgets to trim: prompt = event.get("prompt", "")
StripNothing(s) == s

\* str.strip()
Strip(s) == RStrip(LStrip(s))

\* str.lower(), token by token
LowerTok(c) == IF c = "WHATEVER" THEN "whatever" ELSE c

Lower(s) == [i \in 1..Len(s) |-> LowerTok(s[i])]

negative_words ==
    {"stupid", "dumb", "idiotic", "garbage", "trash", "terrible", "horrible",
     "awful", "broken", "useless", "crap", "sucks", "hate", "ridiculous",
     "insane", "moronic"}

\* word in text, for a text of one token: the token is the word or holds it
\* between other characters ("hate" in "whatever")
InTok(word, tok) == tok = word \/ (word = "hate" /\ tok = "whatever")

\* A heuristic that matches whole words only
_has_negative_tone_whole_words(prompt) ==
    \E w \in negative_words : \E i \in 1..Len(prompt) : Lower(prompt)[i] = w

_has_negative_tone(prompt) ==
    \E w \in negative_words : \E i \in 1..Len(prompt) : InTok(w, Lower(prompt)[i])

\* ---------------------------------------------------------- environment

Unset == "<unset>"

\* os.getenv(name, default)
GetEnv(e, name, default) == IF e[name] = Unset THEN default ELSE e[name]

\* str.lower() of the flag values the environment can hold
LowerFlag(s) == IF s = "TRUE" THEN "true" ELSE s

\* float(s): the value in tenths, "inf", or "error" (ValueError)
ParseFloat(s) ==
    CASE s = "30.0" -> [t |-> "num", tenths |-> 300]
      [] s = "-1" -> [t |-> "num", tenths |-> -10]
      [] s = "inf" -> [t |-> "inf"]
      [] OTHER -> [t |-> "error"]

Envs ==
    [AUTO_CAST_HEAL : {Unset, "false"},
     ANGER_TRANSLATOR : {Unset, "false"},
     HOOK_TIMEOUT_SECS : {Unset, "abc", "inf", "-1"},
     API_KEY : {Unset, "key"}]

\* load_hook_config(): the dict, or "error" when float() raises
load_hook_config(e) ==
    LET timeout == ParseFloat(GetEnv(e, "HOOK_TIMEOUT_SECS", "30.0"))
    IN  IF timeout.t = "error"
        THEN [t |-> "error"]
        ELSE [t |-> "ok",
              auto_cast_heal |-> LowerFlag(GetEnv(e, "AUTO_CAST_HEAL", "true")) = "true",
              anger_translator |-> LowerFlag(GetEnv(e, "ANGER_TRANSLATOR", "true")) = "true",
              timeout_secs |-> timeout]

\* CONFIG, loaded once at module level, with the fallback of the except branch
ModuleConfig(e) ==
    IF load_hook_config(e).t = "error"
    THEN [t |-> "ok", auto_cast_heal |-> TRUE, anger_translator |-> TRUE,
          timeout_secs |-> [t |-> "num", tenths |-> 18]]
    ELSE load_hook_config(e)

\* mcp_server.config.load_config(): the Config, or "error" (no API key)
load_config(e) ==
    IF e["API_KEY"] = Unset
    THEN [t |-> "error"]
    ELSE [t |-> "ok",
          auto_cast_heal |-> LowerFlag(GetEnv(e, "AUTO_CAST_HEAL", "true")) = "true",
          anger_translator |-> LowerFlag(GetEnv(e, "ANGER_TRANSLATOR", "true")) = "true"]

\* int(x) of a finite float given in tenths: truncation toward zero
IntTrunc(tenths) == IF tenths >= 0 THEN tenths \div 10 ELSE -((-tenths) \div 10)

\* ------------------------------------------------ service replies (text)

\* A reply is a sequence of lines: a code fence, a fence with a language tag,
\* a blank line, a line of prose, or a JSON document.
FenceLine == [l |-> "fence"]
FenceJsonLine == [l |-> "fencejson"]
BlankLine == [l |-> "blank"]
ProseLine == [l |-> "prose"]
DocLine(v) == [l |-> "doc", v |-> v]
\* a JSON document with the closing fence on its own last line
DocFenceLine(v) == [l |-> "docfence", v |-> v]

RECURSIVE LStripLines(_)
LStripLines(ls) ==
    IF ls # <<>> /\ Head(ls) = BlankLine THEN LStripLines(Tail(ls)) ELSE ls

RECURSIVE RStripLines(_)
RStripLines(ls) ==
    IF ls # <<>> /\ ls[Len(ls)] = BlankLine
    THEN RStripLines(SubSeq(ls, 1, Len(ls) - 1))
    ELSE ls

StripLines(ls) == RStripLines(LStripLines(ls))

extract_json_from_response(content) ==
    LET c == StripLines(content)
    IN  IF c # <<>> /\ c[1].l \in {"fence", "fencejson"}
        THEN LET rest == Tail(c)
                 body == IF rest # <<>> /\ rest[Len(rest)] = FenceLine
                         THEN SubSeq(rest, 1, Len(rest) - 1)
                         ELSE rest
             IN  StripLines(body)
        ELSE c

\* A parser that looks for the document among the lines and ignores the rest
JsonLoadsSkippingProse(text) ==
    IF \E i \in 1..Len(text) : text[i].l = "doc"
    THEN text[CHOOSE i \in 1..Len(text) : text[i].l = "doc"].v
    ELSE Absent

\* json.loads(text): the value, or Absent for a JSONDecodeError.  Text parses
\* when it is one JSON document and nothing else.
JsonLoads(text) ==
    IF Len(text) = 1 /\ text[1].l = "doc" THEN text[1].v ELSE Absent

\* The texts a service wraps a document in
Wrappings(v) ==
    {<<DocLine(v)>>,
     <<FenceJsonLine, DocLine(v), FenceLine>>,
     <<BlankLine, FenceLine, DocLine(v), FenceLine, BlankLine>>,
     <<ProseLine, DocLine(v)>>,
     <<FenceJsonLine, DocLine(v), FenceLine, ProseLine>>,
     <<FenceJsonLine, DocFenceLine(v)>>,
     <<ProseLine>>,
     <<>>}

\* ----------------------------------------------------------- the judge

GuardKeys == {"verdict", "reason", "confidence", "issues", "suggestions", "error"}

Verdicts ==
    {Absent, Null, Str(<<"proceed">>), Str(<<"heal">>), Str(<<"intervene">>),
     Str(<<"block">>)}

\* The JSON objects a judge can answer with
GuardObjects ==
    [verdict : Verdicts,
     reason : {Absent, Str(<<"vague">>)},
     confidence : {Absent, Num(90), Str(<<"high">>)},
     issues : {Absent, List(<<Str(<<"tone">>)>>), List(<<Num(1)>>)},
     suggestions : {Absent, Str(<<"name", " ", "the", " ", "file">>)},
     error : {Absent}]

GuardDocs == {Obj(d) : d \in GuardObjects} \cup {List(<<>>)}

\* provider.complete() has not been called
NoReply == [k |-> "none", content |-> <<>>]

\* What provider.complete() does in pp_guard: raise, or return this content
GuardReplies ==
    {[k |-> "raise", content |-> <<>>]}
    \cup {[k |-> "content", content |-> c] : c \in UNION {Wrappings(v) : v \in GuardDocs}}

\* An except branch that fails closed
GuardErrorResultIntervene ==
    [verdict |-> [t |-> "str", s |-> <<"intervene">>],
     reason |-> [t |-> "str", s |-> <<"Error during evaluation">>],
     confidence |-> [t |-> "num", n |-> 0],
     issues |-> [t |-> "list", items |-> <<>>],
     suggestions |-> Absent,
     error |-> [t |-> "str", s |-> <<"<exception>">>]]

\* pp_guard's except branch
GuardErrorResult ==
    [verdict |-> Str(<<"proceed">>),
     reason |-> Str(<<"Error during evaluation">>),
     confidence |-> Num(0),
     issues |-> List(<<Str(<<"evaluation_error">>)>>),
     suggestions |-> Absent,
     error |-> Str(<<"<exception>">>)]

\* A call site that fails closed: the default result asks to intervene
GuardFallbackIntervene ==
    [verdict |-> Str(<<"intervene">>),
     reason |-> Str(<<"Guard error">>),
     confidence |-> Num(0),
     issues |-> Absent,
     suggestions |-> Absent,
     error |-> Absent]

\* A call site whose default result asks for healing
GuardFallbackHeal ==
    [verdict |-> Str(<<"heal">>),
     reason |-> Str(<<"Guard error">>),
     confidence |-> Num(0),
     issues |-> Absent,
     suggestions |-> Absent,
     error |-> Absent]

\* call_mcp_guard's except branch
GuardFallback ==
    [verdict |-> Str(<<"proceed">>),
     reason |-> Str(<<"Guard error">>),
     confidence |-> Num(0),
     issues |-> Absent,
     suggestions |-> Absent,
     error |-> Absent]

NoGuardResult == [k \in GuardKeys |-> Absent]

\* result.setdefault(...) for the four required fields of pp_guard
GuardDefaults(d) ==
    SetDefault(SetDefault(SetDefault(SetDefault(d,
        "verdict", Str(<<"intervene">>)),
        "confidence", Num(50)),
        "issues", List(<<>>)),
        "reason", Str(<<"No reason provided">>))

\* pp_guard, from the content the provider returned to the return statement:
\* the result dict, or Absent when a statement of the try block raises
\* (JSONDecodeError, AttributeError on a non-object, a failing log format).
PpGuardParse(content) ==
    LET doc == JsonLoads(extract_json_from_response(content))
    IN  IF doc.t # "obj"
        THEN Absent
        ELSE LET r4 == GuardDefaults(doc.d)
             IN  IF /\ FormatsAsFloat(r4["confidence"])
                    /\ (Truthy(r4["issues"]) => Joinable(r4["issues"]))
                 THEN Obj(r4)
                 ELSE Absent

\* call_mcp_guard's logging of the response (lines of the try block after the
\* call): TRUE when no statement raises
CallGuardLogOk(r) ==
    /\ FormatsAsFloat(Get(r, "confidence", Num(0)))
    /\ (Truthy(Get(r, "issues", List(<<>>))) => Joinable(Get(r, "issues", List(<<>>))))

\* ------------------------------------------------------------- the healer

HealKeys == {"healed_prompt", "changes_made", "error"}

\* The JSON objects a heal service can answer with
HealObjects ==
    [healed_prompt : {Absent, Null, Str(<<>>), Str(<<"b">>), List(<<>>)},
     changes_made : {Absent, List(<<Str(<<"reworded">>)>>), Num(1)},
     error : {Absent}]

HealDocs == {Obj(d) : d \in HealObjects} \cup {List(<<>>)}

HealReplies ==
    {[k |-> "raise", content |-> <<>>]}
    \cup {[k |-> "content", content |-> c] : c \in UNION {Wrappings(v) : v \in HealDocs}}

\* An except branch that returns the prompt and the error only
HealFallbackWithoutChanges(prompt) ==
    [healed_prompt |-> [t |-> "str", s |-> prompt],
     changes_made |-> Absent,
     error |-> [t |-> "str", s |-> <<"<exception>">>]]

\* pp_heal's and call_mcp_heal's except branch
HealFallback(prompt) ==
    [healed_prompt |-> Str(prompt),
     changes_made |-> List(<<>>),
     error |-> Str(<<"<exception>">>)]

NoHealResult == [k \in HealKeys |-> Absent]

\* truncate_prompt(text, 500) followed by the log call succeeds
TruncateOk(v) == HasLen(v)

\* pp_heal, from the content the provider returned to the return statement:
\* the result dict, or Absent when a statement of the try block raises
PpHealParse(content, prompt) ==
    LET doc == JsonLoads(extract_json_from_response(content))
    IN  IF doc.t # "obj"
        THEN Absent
        ELSE LET r1 == SetDefault(doc.d, "healed_prompt", Str(prompt))
                 r2 == SetDefault(r1, "changes_made", List(<<>>))
             IN  IF /\ TruncateOk(r2["healed_prompt"])
                    /\ HasLen(r2["changes_made"])
                    /\ (Truthy(r2["changes_made"]) => Joinable(r2["changes_made"]))
                 THEN Obj(r2)
                 ELSE Absent

\* call_mcp_heal's logging of the response: TRUE when no statement raises
CallHealLogOk(r, prompt) ==
    /\ TruncateOk(Get(r, "healed_prompt", Str(prompt)))
    /\ HasLen(Get(r, "changes_made", List(<<>>)))
    /\ (Truthy(Get(r, "changes_made", List(<<>>)))
            => Joinable(Get(r, "changes_made", List(<<>>))))

\* The system prompt pp_heal dispatches
HealTemplate(mode, config, prompt) ==
    IF mode = "anger" THEN "PP_HEAL_ANGER_SYSTEM"
    ELSE IF mode = "clarity" THEN "PP_HEAL_CLARITY_SYSTEM"
    ELSE IF mode = "auto"
         THEN IF config.anger_translator /\ _has_negative_tone(prompt)
              THEN "PP_HEAL_ANGER_SYSTEM"
              ELSE "PP_HEAL_CLARITY_SYSTEM"
    ELSE "PP_HEAL_CLARITY_SYSTEM"

\* --------------------------------------------------------- hook responses

EmptyPromptMessage == <<"Empty prompt - please provide instructions">>
HealedNotice == <<"Prompt auto-healed for clarity">>
DefaultSuggestions == <<"Consider adding more context and specifics.">>

Response(cont, prompt, userMessage) ==
    [continue |-> cont, prompt |-> prompt, userMessage |-> userMessage]

\* An empty-prompt branch that echoes the (empty) prompt back
EmptyPromptResponseWithPrompt == [continue |-> FALSE, prompt |-> [t |-> "str", s |-> <<>>],
                                  userMessage |-> [t |-> "str", s |-> EmptyPromptMessage]]

\* A proceed branch that blocks
ProceedResponseBlocked(prompt) ==
    [continue |-> FALSE, prompt |-> Absent, userMessage |-> [t |-> "str", s |-> prompt]]

\* A dispatcher that asks for the clarity mode
heal_mode_clarity == "clarity"

\* The return value of the empty-prompt branch
EmptyPromptResponse == Response(FALSE, Absent, Str(EmptyPromptMessage))

\* The return value of the proceed branch and of the unknown-verdict fall-through
ProceedResponse(prompt) == Response(TRUE, Str(prompt), Absent)

\* heal_mode = "auto"
heal_mode == "auto"

\* {"continue": True}
MinimalResponse == Response(TRUE, Absent, Absent)

NoResponse == [continue |-> FALSE, prompt |-> Absent, userMessage |-> Str(<<"<none>">>)]

\* The feedback block of the intervene branch
InterveneFeedback(reason, suggestions) ==
    <<"[PROMPT QUALITY CHECK]", "STOP">> \o PyStr(reason)
        \o <<"Suggestions:">>
        \o (IF Truthy(suggestions) THEN PyStr(suggestions) ELSE DefaultSuggestions)
        \o <<"---", "Original prompt:">>

\* The feedback block of the heal branch with auto_cast_heal off
HealOffFeedback(reason, suggestions) ==
    <<"[PROMPT QUALITY CHECK]", "HINT">> \o PyStr(reason)
        \o <<"Suggestions:">>
        \o (IF Truthy(suggestions) THEN PyStr(suggestions) ELSE DefaultSuggestions)
        \o <<"Tip: Enable AUTO_CAST_HEAL in .env for automatic fixes.">>
        \o <<"---", "Original prompt:">>

\* The return value of the intervene branch
InterveneResponse(reason, suggestions, prompt) ==
    Response(TRUE, Str(InterveneFeedback(reason, suggestions) \o prompt), Absent)

\* A heal branch that blocks with the feedback when auto_cast_heal is off
HealOffResponseBlocked(reason, suggestions, prompt) ==
    [continue |-> FALSE, prompt |-> Absent,
     userMessage |-> [t |-> "str", s |-> HealOffFeedback(reason, suggestions)]]

\* The return value of the heal branch with auto_cast_heal off
HealOffResponse(reason, suggestions, prompt) ==
    Response(TRUE, Str(HealOffFeedback(reason, suggestions) \o prompt), Absent)

\* ------------------------------------------- hooks.json (install, uninstall)

\* Paths are text: a sequence of tokens, each a run of characters.
\* get_project_root(), as str(project_root)
project_root == <<"/home/u/paladin">>

\* project_root / "hooks" / "run.sh", as text
hook_wrapper == project_root \o <<"/hooks/run.sh">>

\* needle in hay, for two strings
Contains(needle, hay) ==
    \E i \in 0..(Len(hay) - Len(needle)) : SubSeq(hay, i + 1, i + Len(needle)) = needle

\* One entry of a hook list
Hook(command, args) == [command |-> command, args |-> args]

\* create_hook_config(project_root)
create_hook_config == Hook(Str(hook_wrapper), Absent)

\* An entry that runs this project's hook script through the interpreter
LegacyHook ==
    Hook(Str(<<"python3">>), List(<<Str(project_root \o <<"/hooks/before_submit_prompt.py">>)>>))

\* The entry of a different project, in a directory whose name starts with
\* this project's
SiblingHook == Hook(Str(<<"/home/u/paladin", "-fork", "/hooks/run.sh">>), Absent)

\* The entry of an unrelated tool
ForeignHook == Hook(Str(<<"/opt/linter/hook.sh">>), Absent)

HookEntries == {create_hook_config, LegacyHook, SiblingHook, ForeignHook}

\* is_prompt_paladin_hook(hook, project_root)
is_prompt_paladin_hook(hook) ==
    LET command == Get(hook, "command", Str(<<>>))
        args == Get(hook, "args", List(<<>>))
    IN  \/ Contains(project_root, PyStr(command))
        \/ \E i \in 1..Len(args.items) : Contains(project_root, PyStr(args.items[i]))

\* hooks_are_equal(hook1, hook2)
hooks_are_equal(hook1, hook2) == hook1.command = hook2.command

\* The contents of hooks.json: the hook lists by type, and what else the file
\* holds at top level
HooksFile(version, extra, hooks) == [version |-> version, extra |-> extra, hooks |-> hooks]

HookTypes(beforeSubmitPrompt, afterFileEdit) ==
    [beforeSubmitPrompt |-> beforeSubmitPrompt, afterFileEdit |-> afterFileEdit]

\* The file does not exist / is not JSON / holds a JSON object
Missing == [f |-> "missing"]
Corrupt == [f |-> "corrupt"]
Json(v) == [f |-> "json", v |-> v]

\* load_hooks_config(): None (here Absent) or the parsed object
load_hooks_config(file) == IF file.f = "json" THEN file.v ELSE Absent

\* config.get('hooks', {}).get('beforeSubmitPrompt', [])
BeforeSubmitHooks(config) ==
    IF config.hooks = Absent THEN <<>>
    ELSE Get(config.hooks, "beforeSubmitPrompt", List(<<>>)).items

\* find_prompt_paladin_hook(config, project_root): the first match, 0 for None
find_prompt_paladin_hook(config) ==
    LET hooks_list == BeforeSubmitHooks(config)
        found == {i \in 1..Len(hooks_list) : is_prompt_paladin_hook(hooks_list[i])}
    IN  IF found = {} THEN 0 ELSE CHOOSE i \in found : \A j \in found : i <= j

\* has_other_hooks(config)
has_other_hooks(config) ==
    /\ config.hooks # Absent
    /\ Truthy(config.hooks.afterFileEdit)

\* install_hook, lines 191-208: the existing object with its structure
\* ensured, or a new one
InstallBase(file) ==
    LET existing_config == load_hooks_config(file)
    IN  IF existing_config = Absent
        THEN HooksFile(Num(1), Absent, HookTypes(List(<<>>), Absent))
        ELSE LET hooks == IF existing_config.hooks = Absent
                          THEN HookTypes(Absent, Absent)
                          ELSE existing_config.hooks
             IN  [existing_config EXCEPT !.hooks = SetDefault(hooks, "beforeSubmitPrompt", List(<<>>))]

\* install_hook, lines 210-234: what the run is going to do ("present" when
\* it returns early) and the object it is going to write
InstallPlan(file, force) ==
    LET config == InstallBase(file)
        hooks_list == BeforeSubmitHooks(config)
        idx == find_prompt_paladin_hook(config)
        new_hook == create_hook_config
    IN  IF idx # 0
        THEN IF hooks_are_equal(hooks_list[idx], new_hook) /\ ~force
             THEN [action |-> "present", config |-> config]
             ELSE [action |-> IF hooks_are_equal(hooks_list[idx], new_hook)
                              THEN "reinstall" ELSE "update",
                   config |-> [config EXCEPT !.hooks.beforeSubmitPrompt =
                                  List([hooks_list EXCEPT ![idx] = new_hook])]]
        ELSE [action |-> "install",
              config |-> [config EXCEPT !.hooks.beforeSubmitPrompt =
                             List(Append(hooks_list, new_hook))]]

\* uninstall_hook, lines 166-172: other_hooks
OtherHooks(config) ==
    SelectSeq(BeforeSubmitHooks(config), LAMBDA hook : ~is_prompt_paladin_hook(hook))

\* uninstall_hook, lines 154-177 and 205-264: "absent" (no file), "unreadable",
\* "none" (nothing to remove), or the branch taken: "write" with the object
\* to write, or "delete"
UninstallPlan(file, keep_empty) ==
    IF file.f = "missing" THEN [action |-> "absent", config |-> Absent]
    ELSE IF load_hooks_config(file) = Absent THEN [action |-> "unreadable", config |-> Absent]
    ELSE LET config == load_hooks_config(file)
             other_hooks == OtherHooks(config)
         IN  IF Len(other_hooks) = Len(BeforeSubmitHooks(config))
             THEN [action |-> "none", config |-> config]
             ELSE IF other_hooks # <<>>
             THEN [action |-> "write",
                   config |-> [config EXCEPT !.hooks.beforeSubmitPrompt = List(other_hooks)]]
             ELSE IF has_other_hooks(config) \/ keep_empty
             THEN [action |-> "write",
                   config |-> [config EXCEPT !.hooks.beforeSubmitPrompt = List(<<>>)]]
             ELSE [action |-> "delete", config |-> Absent]

\* ------------------------------------------------------------------ state

VARIABLES
    pc,            \* position of the main thread
    env,           \* os.environ after the .env file is loaded
    CONFIG,        \* the hook's module-level CONFIG
    stdin,         \* what sys.stdin.read() returns
    event,         \* the parsed event (its prompt field)
    prompt,        \* process_hook's local: the trimmed prompt
    alarm,         \* the SIGALRM timer: "off", "armed" or "fired"
    guard_result,  \* the dict call_mcp_guard is about to return / returned
    heal_result,   \* the dict call_mcp_heal is about to return / returned
    response,      \* process_hook's return value
    returned,      \* process_hook has returned
    stdout,        \* the objects written to sys.stdout, in order
    calls,         \* the calls made so far: call sites and provider.complete
    errors,        \* history: the invocations ("guard", "heal") in which an
                   \* error other than Timeout was raised
    fired_at,      \* history: the position SIGALRM was delivered at, or "none"
    llm_response,  \* history: what the last provider.complete() did
    hooks_json,    \* ~/.cursor/hooks.json: missing, not JSON, or its object
    backups,       \* the hooks.backup.<timestamp> files, oldest first
    tmp_file,      \* ~/.cursor/hooks.tmp
    run,           \* the install or uninstall run in progress
    runs           \* history: the finished install and uninstall runs

\* The files and runs of the installer and the uninstaller
installVars == <<hooks_json, backups, tmp_file, run, runs>>

\* The state of the hook process and of the tools
hookVars ==
    <<env, CONFIG, stdin, event, prompt, alarm, guard_result, heal_result,
      response, returned, stdout, calls, errors, fired_at, llm_response>>

vars ==
    <<pc, env, CONFIG, stdin, event, prompt, alarm, guard_result, heal_result,
      response, returned, stdout, calls, errors, fired_at, llm_response, installVars>>

\* No install or uninstall run is in progress
NoRun ==
    [tool |-> "none", dry_run |-> FALSE, flag |-> FALSE, before |-> Missing,
     action |-> "none", config |-> Absent, backed_up |-> FALSE]

\* The installer is not part of the run: no hooks.json, nothing in progress
NoInstaller ==
    /\ hooks_json = Missing
    /\ backups = <<>>
    /\ tmp_file = Missing
    /\ run = NoRun
    /\ runs = <<>>

\* What standard input can hold: nothing but whitespace, text that is not
\* JSON, a JSON value that is no object, or an object whose prompt field is
\* missing, not a string, or a string.
Stdins ==
    {[kind |-> "blank", prompt |-> Absent],
     [kind |-> "invalid", prompt |-> Absent],
     [kind |-> "nondict", prompt |-> Absent],
     [kind |-> "dict", prompt |-> Absent],
     [kind |-> "dict", prompt |-> Null]}
    \cup {[kind |-> "dict", prompt |-> Str(p)] : p \in Prompts}

Call(fn, p, mode, system) == [fn |-> fn, prompt |-> p, mode |-> mode, system |-> system]

CallsOf(fn) == {i \in 1..Len(calls) : calls[i].fn = fn}

Init ==
    /\ pc = "m_start"
    /\ env \in Envs
    /\ CONFIG = ModuleConfig(env)
    /\ stdin \in Stdins
    /\ event = Absent
    /\ prompt = <<>>
    /\ alarm = "off"
    /\ guard_result = NoGuardResult
    /\ heal_result = NoHealResult
    /\ response = NoResponse
    /\ returned = FALSE
    /\ stdout = <<>>
    /\ calls = <<>>
    /\ errors = {}
    /\ fired_at = "none"
    /\ llm_response = NoReply
    /\ NoInstaller

\* ------------------------------------------------------------------ main()

\* The argument of signal.alarm(): int(CONFIG["timeout_secs"]) + 1, in seconds
AlarmSeconds(cfg) == IntTrunc(cfg.timeout_secs.tenths) + 1

\* signal.signal(...); signal.alarm(int(CONFIG["timeout_secs"]) + 1).
\* int() of an infinite float raises OverflowError, outside the try block.
ArmAlarm ==
    /\ pc = "m_start"
    /\ IF CONFIG.timeout_secs.t = "inf"
       THEN /\ pc' = "m_crashed"
            /\ alarm' = alarm
       ELSE /\ pc' = "m_armed"
            /\ alarm' = IF AlarmSeconds(CONFIG) = 0
                        THEN "off"
                        ELSE "armed"
    /\ UNCHANGED <<env, CONFIG, stdin, event, prompt, guard_result, heal_result,
                   response, returned, stdout, calls, errors, fired_at,
                   llm_response, installVars>>

\* logger.debug("Timeout set ..."), then the try block is entered
EnterTry ==
    /\ pc = "m_armed"
    /\ pc' = "m_read"
    /\ UNCHANGED <<env, CONFIG, stdin, event, prompt, alarm, guard_result,
                   heal_result, response, returned, stdout, calls, errors, fired_at,
                   llm_response, installVars>>

\* raw_input = sys.stdin.read()
ReadStdin ==
    /\ pc = "m_read"
    /\ pc' = "m_parse"
    /\ UNCHANGED <<env, CONFIG, stdin, event, prompt, alarm, guard_result,
                   heal_result, response, returned, stdout, calls, errors, fired_at,
                   llm_response, installVars>>

\* event = json.loads(raw_input) if raw_input.strip() else {}, with the
\* JSONDecodeError handler; list(event.keys()) raises on a non-object.
\* A parser that lets a JSONDecodeError reach main()'s except Exception
ParseEventFailOpen ==
    /\ pc = "m_parse"
    /\ IF stdin.kind \in {"nondict", "invalid"}
       THEN /\ pc' = "m_exc"
            /\ event' = event
       ELSE /\ pc' = "h_begin"
            /\ event' = IF stdin.kind = "dict" THEN stdin.prompt ELSE Absent
    /\ UNCHANGED <<env, CONFIG, stdin, prompt, alarm, guard_result, heal_result,
                   response, returned, stdout, calls, errors, fired_at,
                   llm_response, installVars>>

ParseEvent ==
    /\ pc = "m_parse"
    /\ IF stdin.kind = "nondict"
       THEN /\ pc' = "m_exc"
            /\ event' = event
       ELSE /\ pc' = "h_begin"
            /\ event' = IF stdin.kind = "dict" THEN stdin.prompt ELSE Absent
    /\ UNCHANGED <<env, CONFIG, stdin, prompt, alarm, guard_result, heal_result,
                   response, returned, stdout, calls, errors, fired_at,
                   llm_response, installVars>>

\* sys.stdout.write(json.dumps(response))
WriteResponse ==
    /\ pc = "m_write"
    /\ stdout' = Append(stdout, response)
    /\ pc' = "m_flush"
    /\ UNCHANGED <<env, CONFIG, stdin, event, prompt, alarm, guard_result,
                   heal_result, response, returned, calls, errors, fired_at,
                   llm_response, installVars>>

\* sys.stdout.flush(); the try block is left and main() returns
FlushResponse ==
    /\ pc = "m_flush"
    /\ pc' = "m_done"
    /\ UNCHANGED <<env, CONFIG, stdin, event, prompt, alarm, guard_result,
                   heal_result, response, returned, stdout, calls, errors, fired_at,
                   llm_response, installVars>>

\* except Timeout: sys.stdout.write(json.dumps({"continue": True}))
TimeoutHandlerWrite ==
    /\ pc = "m_timeout"
    /\ stdout' = Append(stdout, MinimalResponse)
    /\ pc' = "m_timeout_flush"
    /\ UNCHANGED <<env, CONFIG, stdin, event, prompt, alarm, guard_result,
                   heal_result, response, returned, calls, errors, fired_at,
                   llm_response, installVars>>

TimeoutHandlerFlush ==
    /\ pc = "m_timeout_flush"
    /\ pc' = "m_done"
    /\ UNCHANGED <<env, CONFIG, stdin, event, prompt, alarm, guard_result,
                   heal_result, response, returned, stdout, calls, errors, fired_at,
                   llm_response, installVars>>

\* except Exception: sys.stdout.write(json.dumps({"continue": True}))
ExceptionHandlerWrite ==
    /\ pc = "m_exc"
    /\ stdout' = Append(stdout, MinimalResponse)
    /\ pc' = "m_exc_flush"
    /\ UNCHANGED <<env, CONFIG, stdin, event, prompt, alarm, guard_result,
                   heal_result, response, returned, calls, errors, fired_at,
                   llm_response, installVars>>

ExceptionHandlerFlush ==
    /\ pc = "m_exc_flush"
    /\ pc' = "m_done"
    /\ UNCHANGED <<env, CONFIG, stdin, event, prompt, alarm, guard_result,
                   heal_result, response, returned, stdout, calls, errors, fired_at,
                   llm_response, installVars>>

\* ---------------------------------------------------------- process_hook

\* prompt = event.get("prompt", "").strip() and the empty-prompt branch;
\* otherwise call_mcp_guard(prompt, timeout=25.0) is called.
ProcessHookBegin ==
    /\ pc = "h_begin"
    /\ LET raw == IF event = Absent THEN Str(<<>>) ELSE event
       IN  IF raw.t # "str"
           THEN /\ pc' = "m_exc"
                /\ UNCHANGED <<prompt, response, returned, calls>>
           ELSE /\ prompt' = Strip(raw.s)
                /\ IF Strip(raw.s) = <<>>
                   THEN /\ response' = EmptyPromptResponse
                        /\ returned' = TRUE
                        /\ pc' = "m_write"
                        /\ calls' = calls
                   ELSE /\ calls' = Append(calls, Call("call_mcp_guard", Strip(raw.s), "", ""))
                        /\ pc' = "g_pre"
                        /\ UNCHANGED <<response, returned>>
    /\ UNCHANGED <<env, CONFIG, stdin, event, alarm, guard_result, heal_result, stdout, errors, fired_at,
                   llm_response, installVars>>

\* The log lines of a verdict branch raise when confidence takes no float
\* format or issues cannot be joined
BranchLogOk(confidence, issues, joins) ==
    /\ FormatsAsFloat(confidence)
    /\ (joins /\ Truthy(issues)) => Joinable(issues)

\* process_hook from the return of call_mcp_guard: the verdict branches
Dispatch ==
    /\ pc = "h_dispatch"
    /\ LET verdict == Get(guard_result, "verdict", Str(<<"proceed">>))
           reason == Get(guard_result, "reason", Str(<<"No reason provided">>))
           confidence == Get(guard_result, "confidence", Num(0))
           issues == Get(guard_result, "issues", List(<<>>))
           suggestions == Get(guard_result, "suggestions", Str(<<>>))
       IN  IF verdict = Str(<<"proceed">>)
           THEN IF BranchLogOk(confidence, issues, FALSE)
                THEN /\ response' = ProceedResponse(prompt)
                     /\ returned' = TRUE
                     /\ pc' = "m_write"
                     /\ calls' = calls
                ELSE /\ pc' = "m_exc"
                     /\ UNCHANGED <<response, returned, calls>>
           ELSE IF verdict = Str(<<"intervene">>)
           THEN IF BranchLogOk(confidence, issues, TRUE)
                THEN /\ response' = InterveneResponse(reason, suggestions, prompt)
                     /\ returned' = TRUE
                     /\ pc' = "m_write"
                     /\ calls' = calls
                ELSE /\ pc' = "m_exc"
                     /\ UNCHANGED <<response, returned, calls>>
           ELSE IF verdict = Str(<<"heal">>)
           THEN IF ~BranchLogOk(confidence, issues, TRUE)
                THEN /\ pc' = "m_exc"
                     /\ UNCHANGED <<response, returned, calls>>
                ELSE IF CONFIG.auto_cast_heal
                THEN /\ calls' = Append(calls, Call("call_mcp_heal", prompt, heal_mode, ""))
                     /\ pc' = "l_pre"
                     /\ UNCHANGED <<response, returned>>
                ELSE /\ response' = HealOffResponse(reason, suggestions, prompt)
                     /\ returned' = TRUE
                     /\ pc' = "m_write"
                     /\ calls' = calls
           ELSE /\ response' = ProceedResponse(prompt)
                /\ returned' = TRUE
                /\ pc' = "m_write"
                /\ calls' = calls
    /\ UNCHANGED <<env, CONFIG, stdin, event, prompt, alarm, guard_result,
                   heal_result, stdout, errors, fired_at,
                   llm_response, installVars>>

\* process_hook from the return of call_mcp_heal to its return statement
DispatchHealed ==
    /\ pc = "h_healed"
    /\ response' = Response(TRUE, Get(heal_result, "healed_prompt", Str(prompt)),
                            Str(HealedNotice))
    /\ returned' = TRUE
    /\ pc' = "m_write"
    /\ UNCHANGED <<env, CONFIG, stdin, event, prompt, alarm, guard_result,
                   heal_result, stdout, calls, errors, fired_at,
                   llm_response, installVars>>

\* ------------------------------------------------ call_mcp_guard, pp_guard

\* call_mcp_guard up to its try block
CallGuardEnter ==
    /\ pc = "g_pre"
    /\ pc' = "g_try"
    /\ UNCHANGED <<env, CONFIG, stdin, event, prompt, alarm, guard_result,
                   heal_result, response, returned, stdout, calls, errors, fired_at,
                   llm_response, installVars>>

\* from mcp_server.tools import pp_guard: the import can fail; otherwise
\* pp_guard(prompt=prompt) is called and reaches its try block
CallGuardImport ==
    /\ pc = "g_try"
    /\ \E ok \in BOOLEAN :
          IF ok
          THEN /\ pc' = "pg_try"
               /\ calls' = Append(calls, Call("pp_guard", prompt, "", ""))
               /\ errors' = errors
          ELSE /\ pc' = "g_except"
               /\ calls' = calls
               /\ errors' = errors \cup {"guard"}
    /\ UNCHANGED <<env, CONFIG, stdin, event, prompt, alarm, guard_result,
                   heal_result, response, returned, stdout, fired_at,
                   llm_response, installVars>>

\* pp_guard: load_config(), get_provider_for_tool(), format_guard_prompt();
\* then provider.complete(user_prompt, PP_GUARD_SYSTEM) is entered
PpGuardSetup ==
    /\ pc = "pg_try"
    /\ \E providerOk \in BOOLEAN :
          IF load_config(env).t = "ok" /\ providerOk
          THEN /\ pc' = "pg_llm"
               /\ calls' = Append(calls, Call("complete", prompt, "", "PP_GUARD_SYSTEM"))
               /\ errors' = errors
          ELSE /\ pc' = "pg_except"
               /\ calls' = calls
               /\ errors' = errors \cup {"guard"}
    /\ UNCHANGED <<env, CONFIG, stdin, event, prompt, alarm, guard_result,
                   heal_result, response, returned, stdout, fired_at,
                   llm_response, installVars>>

\* provider.complete() returns or raises; pp_guard extracts, parses, fills
\* the defaults, logs and returns
PpGuardComplete ==
    /\ pc = "pg_llm"
    /\ \E reply \in GuardReplies :
          /\ llm_response' = reply
          /\ IF reply.k = "content" /\ PpGuardParse(reply.content) # Absent
             THEN /\ guard_result' = PpGuardParse(reply.content).d
                  /\ pc' = "g_log"
                  /\ errors' = errors
             ELSE /\ guard_result' = guard_result
                  /\ pc' = "pg_except"
                  /\ errors' = errors \cup {"guard"}
    /\ UNCHANGED <<env, CONFIG, stdin, event, prompt, alarm, heal_result,
                   response, returned, stdout, calls, fired_at,
                   installVars>>

\* pp_guard's except Exception branch
PpGuardExcept ==
    /\ pc = "pg_except"
    /\ guard_result' = GuardErrorResult
    /\ pc' = "g_log"
    /\ UNCHANGED <<env, CONFIG, stdin, event, prompt, alarm, heal_result,
                   response, returned, stdout, calls, errors, fired_at,
                   llm_response, installVars>>

\* call_mcp_guard after pp_guard returned: the log lines, return response
CallGuardLog ==
    /\ pc = "g_log"
    /\ pc' = IF CallGuardLogOk(guard_result) THEN "h_dispatch" ELSE "g_except"
    /\ errors' = IF CallGuardLogOk(guard_result) THEN errors ELSE errors \cup {"guard"}
    /\ UNCHANGED <<env, CONFIG, stdin, event, prompt, alarm, guard_result,
                   heal_result, response, returned, stdout, calls, fired_at,
                   llm_response, installVars>>

\* call_mcp_guard's except Exception branch
CallGuardExcept ==
    /\ pc = "g_except"
    /\ guard_result' = GuardFallback
    /\ pc' = "h_dispatch"
    /\ UNCHANGED <<env, CONFIG, stdin, event, prompt, alarm, heal_result,
                   response, returned, stdout, calls, errors, fired_at,
                   llm_response, installVars>>

\* -------------------------------------------------- call_mcp_heal, pp_heal

\* call_mcp_heal up to its try block
CallHealEnter ==
    /\ pc = "l_pre"
    /\ pc' = "l_try"
    /\ UNCHANGED <<env, CONFIG, stdin, event, prompt, alarm, guard_result,
                   heal_result, response, returned, stdout, calls, errors, fired_at,
                   llm_response, installVars>>

\* from mcp_server.tools import pp_heal; pp_heal(prompt=prompt, mode=mode)
CallHealImport ==
    /\ pc = "l_try"
    /\ \E ok \in BOOLEAN :
          IF ok
          THEN /\ pc' = "ph_try"
               /\ calls' = Append(calls, Call("pp_heal", prompt, calls[Len(calls)].mode, ""))
               /\ errors' = errors
          ELSE /\ pc' = "l_except"
               /\ calls' = calls
               /\ errors' = errors \cup {"heal"}
    /\ UNCHANGED <<env, CONFIG, stdin, event, prompt, alarm, guard_result,
                   heal_result, response, returned, stdout, fired_at,
                   llm_response, installVars>>

\* pp_heal: load_config(), get_provider_for_tool(), the choice of the system
\* prompt, format_heal_prompt(); then provider.complete() is entered
PpHealSetup ==
    /\ pc = "ph_try"
    /\ \E providerOk \in BOOLEAN :
          IF load_config(env).t = "ok" /\ providerOk
          THEN /\ pc' = "ph_llm"
               /\ calls' = Append(calls,
                     Call("complete", prompt, calls[Len(calls)].mode,
                          HealTemplate(calls[Len(calls)].mode, load_config(env), prompt)))
               /\ errors' = errors
          ELSE /\ pc' = "ph_except"
               /\ calls' = calls
               /\ errors' = errors \cup {"heal"}
    /\ UNCHANGED <<env, CONFIG, stdin, event, prompt, alarm, guard_result,
                   heal_result, response, returned, stdout, fired_at,
                   llm_response, installVars>>

\* provider.complete() returns or raises; pp_heal extracts, parses, fills the
\* defaults, logs and returns
PpHealComplete ==
    /\ pc = "ph_llm"
    /\ \E reply \in HealReplies :
          /\ llm_response' = reply
          /\ IF reply.k = "content" /\ PpHealParse(reply.content, prompt) # Absent
             THEN /\ heal_result' = PpHealParse(reply.content, prompt).d
                  /\ pc' = "l_log"
                  /\ errors' = errors
             ELSE /\ heal_result' = heal_result
                  /\ pc' = "ph_except"
                  /\ errors' = errors \cup {"heal"}
    /\ UNCHANGED <<env, CONFIG, stdin, event, prompt, alarm, guard_result,
                   response, returned, stdout, calls, fired_at,
                   installVars>>

\* pp_heal's except Exception branch
PpHealExcept ==
    /\ pc = "ph_except"
    /\ heal_result' = HealFallback(prompt)
    /\ pc' = "l_log"
    /\ UNCHANGED <<env, CONFIG, stdin, event, prompt, alarm, guard_result,
                   response, returned, stdout, calls, errors, fired_at,
                   llm_response, installVars>>

\* call_mcp_heal after pp_heal returned: the log lines, return response
CallHealLog ==
    /\ pc = "l_log"
    /\ pc' = IF CallHealLogOk(heal_result, prompt) THEN "h_healed" ELSE "l_except"
    /\ errors' = IF CallHealLogOk(heal_result, prompt) THEN errors ELSE errors \cup {"heal"}
    /\ UNCHANGED <<env, CONFIG, stdin, event, prompt, alarm, guard_result,
                   heal_result, response, returned, stdout, calls, fired_at,
                   llm_response, installVars>>

\* call_mcp_heal's except Exception branch
CallHealExcept ==
    /\ pc = "l_except"
    /\ heal_result' = HealFallback(prompt)
    /\ pc' = "h_healed"
    /\ UNCHANGED <<env, CONFIG, stdin, event, prompt, alarm, guard_result,
                   response, returned, stdout, calls, errors, fired_at,
                   llm_response, installVars>>

\* ----------------------------------------------------------------- SIGALRM

\* Where the Timeout raised by _raise_timeout lands, by the position it is
\* raised at: Timeout derives from Exception, so the innermost enclosing
\* "except Exception" takes it; an exception raised inside an except branch
\* goes to the next enclosing try; outside main()'s try block, and inside its
\* "except Exception" branch, nothing catches it.
TimeoutLandsAt(at) ==
    CASE at \in {"pg_try", "pg_llm"} -> "pg_except"
      [] at \in {"g_try", "pg_except", "g_log"} -> "g_except"
      [] at \in {"ph_try", "ph_llm"} -> "ph_except"
      [] at \in {"l_try", "ph_except", "l_log"} -> "l_except"
      [] at \in {"m_read", "m_parse", "h_begin", "g_pre", "g_except", "h_dispatch",
                 "l_pre", "l_except", "h_healed", "m_write", "m_flush"} -> "m_timeout"
      [] OTHER -> "m_crashed"

Running == pc \notin {"m_start", "m_done", "m_crashed"}

\* The timer expires: the handler runs in the main thread and raises Timeout
SigAlrm ==
    /\ alarm = "armed"
    /\ Running
    /\ alarm' = "fired"
    /\ pc' = TimeoutLandsAt(pc)
    /\ fired_at' = pc
    /\ UNCHANGED <<env, CONFIG, stdin, event, prompt, guard_result, heal_result,
                   response, returned, stdout, calls, errors,
                   llm_response, installVars>>

\* ------------------------------------------------------------ specification

Next ==
    \/ ArmAlarm
    \/ EnterTry
    \/ ReadStdin
    \/ ParseEvent
    \/ ProcessHookBegin
    \/ CallGuardEnter
    \/ CallGuardImport
    \/ PpGuardSetup
    \/ PpGuardComplete
    \/ PpGuardExcept
    \/ CallGuardLog
    \/ CallGuardExcept
    \/ Dispatch
    \/ CallHealEnter
    \/ CallHealImport
    \/ PpHealSetup
    \/ PpHealComplete
    \/ PpHealExcept
    \/ CallHealLog
    \/ CallHealExcept
    \/ DispatchHealed
    \/ WriteResponse
    \/ FlushResponse
    \/ TimeoutHandlerWrite
    \/ TimeoutHandlerFlush
    \/ ExceptionHandlerWrite
    \/ ExceptionHandlerFlush
    \/ SigAlrm

Spec == Init /\ [][Next]_vars

\* ------------------------------------------------- the MCP server's tools

\* The modes a client can pass to pp_heal_tool
HealModes == {"auto", "anger", "clarity", "gentle"}

ToolInit ==
    /\ pc = "t_idle"
    /\ env \in Envs
    /\ CONFIG = ModuleConfig(env)
    /\ stdin = [kind |-> "blank", prompt |-> Absent]
    /\ event = Absent
    /\ prompt = <<>>
    /\ alarm = "off"
    /\ guard_result = NoGuardResult
    /\ heal_result = NoHealResult
    /\ response = NoResponse
    /\ returned = FALSE
    /\ stdout = <<>>
    /\ calls = <<>>
    /\ errors = {}
    /\ fired_at = "none"
    /\ llm_response = NoReply
    /\ NoInstaller

\* pp_guard_tool(prompt): pp_guard(prompt, context) is called and reaches its
\* try block
ToolCallGuard ==
    /\ pc = "t_idle"
    /\ \E p \in Prompts :
          /\ prompt' = p
          /\ calls' = Append(calls, Call("pp_guard", p, "", ""))
    /\ pc' = "pg_try"
    /\ UNCHANGED <<env, CONFIG, stdin, event, alarm, guard_result, heal_result,
                   response, returned, stdout, errors, fired_at, llm_response, installVars>>

\* pp_heal_tool(prompt, mode): pp_heal(prompt, mode, context) is called and
\* reaches its try block
ToolCallHeal ==
    /\ pc = "t_idle"
    /\ \E p \in Prompts, mode \in HealModes :
          /\ prompt' = p
          /\ calls' = Append(calls, Call("pp_heal", p, mode, ""))
    /\ pc' = "ph_try"
    /\ UNCHANGED <<env, CONFIG, stdin, event, alarm, guard_result, heal_result,
                   response, returned, stdout, errors, fired_at, llm_response, installVars>>

\* pp_heal_tool called again with the healed_prompt of the result before and
\* the same mode
ToolCallHealAgain ==
    /\ pc = "t_done"
    /\ calls[1].fn = "pp_heal"
    /\ Cardinality(CallsOf("pp_heal")) < MaxHeals
    /\ heal_result["healed_prompt"].t = "str"
    /\ prompt' = heal_result["healed_prompt"].s
    /\ calls' = Append(calls, Call("pp_heal", heal_result["healed_prompt"].s,
                                   calls[1].mode, ""))
    /\ llm_response' = NoReply
    /\ pc' = "ph_try"
    /\ UNCHANGED <<env, CONFIG, stdin, event, alarm, guard_result, heal_result,
                   response, returned, stdout, errors, fired_at,
                   installVars>>

\* return pp_guard(...) / return pp_heal(...): the tool hands the result on
ToolReturn ==
    /\ pc \in {"g_log", "l_log"}
    /\ pc' = "t_done"
    /\ UNCHANGED <<env, CONFIG, stdin, event, prompt, alarm, guard_result,
                   heal_result, response, returned, stdout, calls, errors, fired_at,
                   llm_response, installVars>>

ToolNext ==
    \/ ToolCallGuard
    \/ ToolCallHeal
    \/ ToolCallHealAgain
    \/ PpGuardSetup
    \/ PpGuardComplete
    \/ PpGuardExcept
    \/ PpHealSetup
    \/ PpHealComplete
    \/ PpHealExcept
    \/ ToolReturn

ToolSpec == ToolInit /\ [][ToolNext]_vars

\* ------------------------------------------- install.py and uninstall.py

\* Longest beforeSubmitPrompt list hooks.json starts with.
MaxHooks == 2

\* Most install and uninstall runs made one after the other.
MaxRuns == 2

\* The lists of at most MaxHooks entries
HookLists == UNION {[1..n -> HookEntries] : n \in 0..MaxHooks}

\* What hooks.json can hold before the first run
HooksFiles ==
    {Missing, Corrupt}
    \cup {Json(HooksFile(version, extra, hooks)) :
            version \in {Absent, Num(1)},
            extra \in {Absent, Str(<<"custom">>)},
            hooks \in {Absent}
                \cup {HookTypes(b, a) :
                        b \in {Absent} \cup {List(l) : l \in HookLists},
                        a \in {Absent, List(<<>>), List(<<ForeignHook>>)}}}

InstallInit ==
    /\ pc = "i_idle"
    /\ env = [k \in {"AUTO_CAST_HEAL", "ANGER_TRANSLATOR", "HOOK_TIMEOUT_SECS", "API_KEY"} |-> Unset]
    /\ CONFIG = ModuleConfig(env)
    /\ stdin = [kind |-> "blank", prompt |-> Absent]
    /\ event = Absent
    /\ prompt = <<>>
    /\ alarm = "off"
    /\ guard_result = NoGuardResult
    /\ heal_result = NoHealResult
    /\ response = NoResponse
    /\ returned = FALSE
    /\ stdout = <<>>
    /\ calls = <<>>
    /\ errors = {}
    /\ fired_at = "none"
    /\ llm_response = NoReply
    /\ hooks_json \in HooksFiles
    /\ backups = <<>>
    /\ tmp_file = Missing
    /\ run = NoRun
    /\ runs = <<>>

\* A run that has started
StartedRun(tool, dry_run, flag, plan) ==
    [tool |-> tool, dry_run |-> dry_run, flag |-> flag, before |-> hooks_json,
     action |-> plan.action, config |-> plan.config, backed_up |-> FALSE]

\* The record kept of a finished run r that returned rc and left hooks.json
\* as after
FinishedRun(r, rc, after) ==
    [tool |-> r.tool, dry_run |-> r.dry_run, flag |-> r.flag, before |-> r.before,
     action |-> r.action, backed_up |-> r.backed_up, after |-> after, rc |-> rc]

\* An installer that previews nothing: --dry-run is read and not acted on
InstallStartIgnoringDryRun ==
    /\ pc = "i_idle"
    /\ Len(runs) < MaxRuns
    /\ \E dry_run \in BOOLEAN, force \in BOOLEAN, prerequisites \in BOOLEAN :
          LET plan == InstallPlan(hooks_json, force)
              r == StartedRun("install", dry_run, force, plan)
          IN  IF ~prerequisites
              THEN /\ runs' = Append(runs, FinishedRun([r EXCEPT !.action = "refused"], 1, hooks_json))
                   /\ UNCHANGED <<pc, run>>
              ELSE IF plan.action = "present"
              THEN /\ runs' = Append(runs, FinishedRun(r, 0, hooks_json))
                   /\ UNCHANGED <<pc, run>>
              ELSE /\ run' = r
                   /\ pc' = "i_backup"
                   /\ runs' = runs
    /\ UNCHANGED <<hookVars, hooks_json, backups, tmp_file>>

\* install_hook(dry_run, force) up to the dry-run return: the wrapper and
\* venv checks, the load, the search, and the early returns
InstallStart ==
    /\ pc = "i_idle"
    /\ Len(runs) < MaxRuns
    /\ \E dry_run \in BOOLEAN, force \in BOOLEAN, prerequisites \in BOOLEAN :
          LET plan == InstallPlan(hooks_json, force)
              r == StartedRun("install", dry_run, force, plan)
          IN  IF ~prerequisites
              THEN /\ runs' = Append(runs, FinishedRun([r EXCEPT !.action = "refused"], 1, hooks_json))
                   /\ UNCHANGED <<pc, run>>
              ELSE IF plan.action = "present" \/ dry_run
              THEN /\ runs' = Append(runs, FinishedRun(r, 0, hooks_json))
                   /\ UNCHANGED <<pc, run>>
              ELSE /\ run' = r
                   /\ pc' = "i_backup"
                   /\ runs' = runs
    /\ UNCHANGED <<hookVars, hooks_json, backups, tmp_file>>

\* if config_path.exists(): create_backup(config_path); copy2 can fail, which
\* is only warned about
InstallBackup ==
    /\ pc = "i_backup"
    /\ IF hooks_json = Missing
       THEN UNCHANGED <<backups, run>>
       ELSE \E copied \in BOOLEAN :
               /\ backups' = IF copied THEN Append(backups, hooks_json) ELSE backups
               /\ run' = [run EXCEPT !.backed_up = copied]
    /\ pc' = "i_mkdir"
    /\ UNCHANGED <<hookVars, hooks_json, tmp_file, runs>>

\* config_path.parent.mkdir(parents=True, exist_ok=True), outside the try:
\* it can fail only when the directory is not there yet
InstallMkdir ==
    /\ pc = "i_mkdir"
    /\ \E made \in BOOLEAN :
          IF made \/ hooks_json # Missing
          THEN /\ pc' = "i_write"
               /\ UNCHANGED <<run, runs>>
          ELSE /\ pc' = "i_idle"
               /\ runs' = Append(runs, FinishedRun(run, 1, hooks_json))
               /\ run' = NoRun
    /\ UNCHANGED <<hookVars, hooks_json, backups, tmp_file>>

\* with open(temp_path, 'w') as f: json.dump(config, f, indent=2); f.write
InstallWriteTemp ==
    /\ pc = "i_write"
    /\ \E outcome \in {"written", "open fails", "write fails"} :
          /\ tmp_file' = CASE outcome = "written" -> Json(run.config)
                           [] outcome = "open fails" -> tmp_file
                           [] OTHER -> Corrupt
          /\ pc' = IF outcome = "written" THEN "i_rename" ELSE "i_except"
    /\ UNCHANGED <<hookVars, hooks_json, backups, run, runs>>

\* temp_path.replace(config_path), the messages, return 0
InstallRename ==
    /\ pc = "i_rename"
    /\ \E renamed \in BOOLEAN :
          IF renamed
          THEN /\ hooks_json' = tmp_file
               /\ tmp_file' = Missing
               /\ runs' = Append(runs, FinishedRun(run, 0, tmp_file))
               /\ run' = NoRun
               /\ pc' = "i_idle"
          ELSE /\ pc' = "i_except"
               /\ UNCHANGED <<hooks_json, tmp_file, runs, run>>
    /\ UNCHANGED <<hookVars, backups>>

\* except Exception: if temp_path.exists(): temp_path.unlink(); return 1
InstallExcept ==
    /\ pc = "i_except"
    /\ tmp_file' = Missing
    /\ runs' = Append(runs, FinishedRun(run, 1, hooks_json))
    /\ run' = NoRun
    /\ pc' = "i_idle"
    /\ UNCHANGED <<hookVars, hooks_json, backups>>

\* uninstall_hook(dry_run, keep_empty) up to the dry-run return
UninstallStart ==
    /\ pc = "i_idle"
    /\ Len(runs) < MaxRuns
    /\ \E dry_run \in BOOLEAN, keep_empty \in BOOLEAN :
          LET plan == UninstallPlan(hooks_json, keep_empty)
              r == StartedRun("uninstall", dry_run, keep_empty, plan)
          IN  IF plan.action \in {"absent", "none"}
              THEN /\ runs' = Append(runs, FinishedRun(r, 0, hooks_json))
                   /\ UNCHANGED <<pc, run>>
              ELSE IF plan.action = "unreadable"
              THEN /\ runs' = Append(runs, FinishedRun(r, 1, hooks_json))
                   /\ UNCHANGED <<pc, run>>
              ELSE IF dry_run
              THEN /\ runs' = Append(runs, FinishedRun(r, 0, hooks_json))
                   /\ UNCHANGED <<pc, run>>
              ELSE /\ run' = r
                   /\ pc' = "u_backup"
                   /\ runs' = runs
    /\ UNCHANGED <<hookVars, hooks_json, backups, tmp_file>>

\* backup_path = create_backup(config_path), then the branch on other_hooks
UninstallBackup ==
    /\ pc = "u_backup"
    /\ \E copied \in BOOLEAN :
          /\ backups' = IF copied THEN Append(backups, hooks_json) ELSE backups
          /\ run' = [run EXCEPT !.backed_up = copied]
    /\ pc' = IF run.action = "delete" THEN "u_delete" ELSE "u_write"
    /\ UNCHANGED <<hookVars, hooks_json, tmp_file, runs>>

\* with open(temp_path, 'w') as f: json.dump(config, f, indent=2); f.write
UninstallWriteTemp ==
    /\ pc = "u_write"
    /\ \E outcome \in {"written", "open fails", "write fails"} :
          /\ tmp_file' = CASE outcome = "written" -> Json(run.config)
                           [] outcome = "open fails" -> tmp_file
                           [] OTHER -> Corrupt
          /\ pc' = IF outcome = "written" THEN "u_rename" ELSE "u_except"
    /\ UNCHANGED <<hookVars, hooks_json, backups, run, runs>>

\* temp_path.replace(config_path), the messages, return 0
UninstallRename ==
    /\ pc = "u_rename"
    /\ \E renamed \in BOOLEAN :
          IF renamed
          THEN /\ hooks_json' = tmp_file
               /\ tmp_file' = Missing
               /\ runs' = Append(runs, FinishedRun(run, 0, tmp_file))
               /\ run' = NoRun
               /\ pc' = "i_idle"
          ELSE /\ pc' = "u_except"
               /\ UNCHANGED <<hooks_json, tmp_file, runs, run>>
    /\ UNCHANGED <<hookVars, backups>>

\* except Exception: if temp_path.exists(): temp_path.unlink(); return 1
UninstallExcept ==
    /\ pc = "u_except"
    /\ tmp_file' = Missing
    /\ runs' = Append(runs, FinishedRun(run, 1, hooks_json))
    /\ run' = NoRun
    /\ pc' = "i_idle"
    /\ UNCHANGED <<hookVars, hooks_json, backups>>

\* config_path.unlink() and return 0, or except Exception: return 1
UninstallDelete ==
    /\ pc = "u_delete"
    /\ \E deleted \in BOOLEAN :
          /\ hooks_json' = IF deleted THEN Missing ELSE hooks_json
          /\ runs' = Append(runs, FinishedRun(run, IF deleted THEN 0 ELSE 1,
                                              IF deleted THEN Missing ELSE hooks_json))
    /\ run' = NoRun
    /\ pc' = "i_idle"
    /\ UNCHANGED <<hookVars, backups, tmp_file>>

InstallNext ==
    \/ InstallStart
    \/ InstallBackup
    \/ InstallMkdir
    \/ InstallWriteTemp
    \/ InstallRename
    \/ InstallExcept
    \/ UninstallStart
    \/ UninstallBackup
    \/ UninstallWriteTemp
    \/ UninstallRename
    \/ UninstallExcept
    \/ UninstallDelete

InstallSpec == InstallInit /\ [][InstallNext]_vars

\* ------------------------------------------------------------ properties

Terminated == pc \in {"m_done", "m_crashed"}

\* The prompt field of the event on standard input, as a string
StdinPromptText ==
    IF stdin.kind = "dict" /\ stdin.prompt.t = "str" THEN stdin.prompt.s ELSE <<>>

AllSpace(s) == \A i \in 1..Len(s) : IsSpace(s[i])

\* The event has a prompt field, or none, and it is empty once trimmed
EmptyPromptEvent ==
    \/ stdin.kind \in {"blank", "invalid"}
    \/ stdin.kind = "dict" /\ stdin.prompt = Absent
    \/ stdin.kind = "dict" /\ stdin.prompt.t = "str" /\ AllSpace(stdin.prompt.s)

\* C1: every run of main() writes exactly one response object to stdout:
\* never two at any time, and exactly one once the process has ended.
C1_ExactlyOneResponse ==
    /\ Len(stdout) <= 1
    /\ Terminated => Len(stdout) = 1

\* C2: when the judge invocation raised or failed, every response is
\* continue == true, whatever the prompt and the configuration.
C2_JudgeFailureFailsOpen ==
    "guard" \in errors =>
        /\ returned => response.continue = TRUE
        /\ \A i \in 1..Len(stdout) : stdout[i].continue = TRUE

C2_Witness ==
    /\ "guard" \in errors
    /\ alarm # "fired"
    /\ pc = "m_done"
    /\ CONFIG.auto_cast_heal = FALSE
    /\ _has_negative_tone(prompt)
    /\ stdout = <<ProceedResponse(prompt)>>

\* C3: for an event whose prompt is empty after trimming (or missing),
\* process_hook returns continue == false with the empty-prompt warning and
\* no judge or heal call is ever made.
C3_EmptyPromptBlockedWithoutCalls ==
    EmptyPromptEvent =>
        /\ calls = <<>>
        /\ returned =>
              /\ response.continue = FALSE
              /\ response.userMessage = Str(EmptyPromptMessage)

C3_Witness ==
    /\ stdin.kind = "dict"
    /\ stdin.prompt = Str(<<" ", " ">>)
    /\ returned
    /\ pc = "m_done"
    /\ stdout = <<response>>

\* The judge returned a result it parsed from the service's answer
WellFormedGuardResult ==
    /\ returned
    /\ guard_result \notin {NoGuardResult, GuardErrorResult, GuardFallback}

\* C4: for a well-formed judge result with verdict proceed, process_hook
\* returns continue == true with the event's prompt character for character,
\* leading and trailing whitespace included, and no heal call is made.
C4_ProceedKeepsOriginalPrompt ==
    (WellFormedGuardResult /\ guard_result["verdict"] = Str(<<"proceed">>)) =>
        /\ response.continue = TRUE
        /\ response.prompt = Str(StdinPromptText)
        /\ CallsOf("call_mcp_heal") = {}

\* C5: when SIGALRM fires before the normal response is written, the judge
\* and heal calls included, the response emitted is {continue: true} alone.
C5_DeadlineGivesMinimalResponse ==
    (fired_at \notin {"none", "m_flush"} /\ stdout # <<>>) =>
        stdout = <<MinimalResponse>>

\* C6: once the armed alarm has been delivered the invocation ends having
\* emitted a response.
C6_DeadlineEndsWithResponse ==
    (alarm = "fired" /\ Terminated) => Len(stdout) >= 1

\* call_mcp_guard has returned to process_hook
GuardReturned ==
    \/ pc \in {"h_dispatch", "l_pre", "l_try", "ph_try", "ph_llm", "ph_except",
               "l_log", "l_except", "h_healed"}
    \/ returned

\* call_mcp_heal has returned to process_hook
HealReturned == pc = "h_healed" \/ (returned /\ CallsOf("call_mcp_heal") # {})

\* C7: an error raised in the judge or heal invocation never leaves
\* call_mcp_guard / call_mcp_heal: the call returns the default result
\* (verdict proceed; healed_prompt = the prompt passed in), main()'s
\* exception handler is not reached, and process_hook goes on to return a
\* response, which is the one written.
C7_InvocationErrorsConverted ==
    /\ errors # {} => pc \notin {"m_exc", "m_exc_flush", "m_crashed"}
    /\ ("guard" \in errors /\ GuardReturned) =>
            guard_result["verdict"] = Str(<<"proceed">>)
    /\ ("heal" \in errors /\ HealReturned) =>
            heal_result["healed_prompt"] = Str(prompt)
    /\ (errors # {} /\ Terminated /\ alarm # "fired") =>
            (returned /\ stdout = <<response>>)

C7_Witness ==
    /\ "heal" \in errors
    /\ alarm # "fired"
    /\ pc = "m_done"
    /\ returned
    /\ stdout = <<Response(TRUE, Str(prompt), Str(HealedNotice))>>

\* The pipeline raises an exception that no call site catches
UnhandledException ==
    \/ stdin.kind = "nondict"
    \/ stdin.kind = "dict" /\ stdin.prompt.t \notin {"absent", "str"}

C9_PromptNeverEmpty ==
    \A i \in 1..Len(stdout) :
        stdout[i].prompt # Absent =>
            (stdout[i].prompt.t = "str" /\ stdout[i].prompt.s # <<>>)

\* C10: for verdict heal with auto_cast_heal on, process_hook calls
\* call_mcp_heal exactly once, with mode auto and the prompt that was judged,
\* and returns continue == true, prompt = the heal result's healed_prompt,
\* userMessage = the healed notice.
C10_AutoHealSubstitutes ==
    /\ Cardinality(CallsOf("call_mcp_heal")) <= 1
    /\ (returned /\ guard_result["verdict"] = Str(<<"heal">>) /\ CONFIG.auto_cast_heal) =>
          /\ Cardinality(CallsOf("call_mcp_heal")) = 1
          /\ \A i \in CallsOf("call_mcp_heal") :
                /\ calls[i].mode = "auto"
                /\ \E j \in CallsOf("call_mcp_guard") :
                      j < i /\ calls[j].prompt = calls[i].prompt
          /\ heal_result["healed_prompt"] # Absent
          /\ response = Response(TRUE, heal_result["healed_prompt"], Str(HealedNotice))

C10_Witness ==
    /\ returned
    /\ guard_result["verdict"] = Str(<<"heal">>)
    /\ CONFIG.auto_cast_heal
    /\ heal_result["healed_prompt"] = Str(<<"b">>)
    /\ "heal" \notin errors
    /\ pc = "m_done"
    /\ stdout = <<response>>

\* The fields a response carries, and its continue flag
ResponseShape(r) ==
    [continue |-> r.continue, prompt |-> r.prompt.t, userMessage |-> r.userMessage.t]

\* A heal invocation was started: call_mcp_heal, pp_heal or a completion with
\* a heal instruction template
HealInvocations ==
    {i \in 1..Len(calls) :
        \/ calls[i].fn \in {"call_mcp_heal", "pp_heal"}
        \/ calls[i].system \in {"PP_HEAL_ANGER_SYSTEM", "PP_HEAL_CLARITY_SYSTEM"}}

UnknownVerdict ==
    guard_result["verdict"] \notin
        {Absent, Str(<<"proceed">>), Str(<<"heal">>), Str(<<"intervene">>)}

\* C12: for a verdict that is none of proceed, heal, intervene (another
\* string, or null) process_hook returns continue == true with the event's
\* prompt as it arrived, and no heal invocation is made.
C12_UnknownVerdictFailsOpen ==
    (returned /\ UnknownVerdict) =>
        /\ response.continue = TRUE
        /\ response.prompt = Str(StdinPromptText)
        /\ HealInvocations = {}

\* s ends with the text t
EndsWith(s, t) ==
    /\ Len(s) >= Len(t)
    /\ SubSeq(s, Len(s) - Len(t) + 1, Len(s)) = t

\* The dispatcher is in a case the intervene policy covers
InterveneCase ==
    \/ guard_result["verdict"] = Str(<<"intervene">>)
    \/ guard_result["verdict"] = Str(<<"heal">>) /\ ~CONFIG.auto_cast_heal

\* C13: for verdict intervene, and for heal with auto_cast_heal off, the
\* response is never blocking: continue == true and the prompt is a feedback
\* block followed by the event's prompt, character for character, and no
\* userMessage.
C13_OneIntervenePolicy ==
    (returned /\ InterveneCase) =>
        /\ response.continue = TRUE
        /\ response.userMessage = Absent
        /\ response.prompt.t = "str"
        /\ Len(response.prompt.s) > Len(StdinPromptText)
        /\ EndsWith(response.prompt.s, StdinPromptText)

\* The JSON value the last reply of the service parses to once the fences are
\* stripped, or Absent
ParsedReply ==
    IF llm_response.k = "content"
    THEN JsonLoads(extract_json_from_response(llm_response.content))
    ELSE Absent

\* C14: when the judge's reply parses to a JSON object, pp_guard returns that
\* object with the missing fields filled with their defaults (verdict
\* intervene, confidence 0.5, issues [], reason placeholder) and the fields
\* present kept; and for such an object without a verdict process_hook
\* returns the response of the intervene branch.
C14_ParsedObjectGetsDefaults ==
    (ParsedReply.t = "obj" /\ llm_response \in GuardReplies) =>
        /\ pc = "g_log" => guard_result = GuardDefaults(ParsedReply.d)
        /\ (returned /\ ParsedReply.d["verdict"] = Absent) =>
              response = InterveneResponse(
                  GuardDefaults(ParsedReply.d)["reason"],
                  Get(ParsedReply.d, "suggestions", Str(<<>>)), prompt)

\* pp_guard / pp_heal has returned to its caller
ToolReturned == pc \in {"g_log", "l_log", "t_done"}

\* The judge invocation failed: no configuration, the service raised, or its
\* reply is not a JSON object
GuardInvocationFailed ==
    \/ load_config(env).t = "error"
    \/ llm_response.k = "raise"
    \/ llm_response.k = "content" /\ ParsedReply.t # "obj"
    \/ "guard" \in errors

\* C15: when pp_guard returns after a failure of the invocation or of the
\* parsing, the result has verdict proceed, confidence 0.0, a diagnostic
\* reason and the error text; pp_guard, once entered, is never left by an
\* exception, whatever the prompt.
C15_GuardFailureGivesProceed ==
    (calls # <<>> /\ calls[1].fn = "pp_guard") =>
        /\ pc \in {"pg_try", "pg_llm", "pg_except", "g_log", "t_done"}
        /\ (ToolReturned /\ GuardInvocationFailed) =>
              /\ guard_result["verdict"] = Str(<<"proceed">>)
              /\ guard_result["confidence"] = Num(0)
              /\ guard_result["reason"] = Str(<<"Error during evaluation">>)
              /\ guard_result["error"] # Absent

C15_Witness ==
    /\ pc = "t_done"
    /\ calls[1].fn = "pp_guard"
    /\ prompt = <<>>
    /\ llm_response.k = "raise"
    /\ guard_result["verdict"] = Str(<<"proceed">>)

\* The judge's reply is malformed: not valid JSON (or no JSON object), or an
\* object without one of the expected keys
MalformedGuardReply ==
    /\ llm_response.k = "content"
    /\ \/ ParsedReply.t # "obj"
       \/ \E k \in {"verdict", "confidence", "issues", "reason"} :
              ParsedReply.d[k] = Absent

\* C16: when the judge's reply is malformed, pp_guard returns what the reply
\* holds with every missing field at its default (verdict intervene,
\* confidence 0.5, issues [], reason placeholder): all four defaults when the
\* reply is not valid JSON.
C16_MalformedReplyGetsDefaults ==
    (calls # <<>> /\ calls[1].fn = "pp_guard" /\ ToolReturned /\ MalformedGuardReply) =>
        guard_result =
            GuardDefaults(IF ParsedReply.t = "obj" THEN ParsedReply.d ELSE NoGuardResult)

\* The texts that are the object v between code-fence markers: with and
\* without the language tag, with blank lines around, with the closing
\* marker on a line of its own or right after the object
FencedForms(v) ==
    {<<FenceJsonLine, DocLine(v), FenceLine>>,
     <<BlankLine, FenceLine, DocLine(v), FenceLine, BlankLine>>,
     <<FenceJsonLine, DocFenceLine(v)>>}

\* What pp_guard returns for a reply with this content
PpGuardResult(content) ==
    IF PpGuardParse(content) # Absent THEN PpGuardParse(content).d ELSE GuardErrorResult

\* What pp_heal returns for a reply with this content
PpHealResult(content, p) ==
    IF PpHealParse(content, p) # Absent THEN PpHealParse(content, p).d ELSE HealFallback(p)

\* C17: for every JSON object J, pp_guard and pp_heal return for a reply
\* that is J between code-fence markers what they return for J alone.
C17_FenceStrippingTransparent ==
    (ToolReturned /\ llm_response.k = "content") =>
        /\ \A v \in GuardDocs :
              (v.t = "obj" /\ calls[1].fn = "pp_guard"
                    /\ llm_response.content \in FencedForms(v)) =>
                  guard_result = PpGuardResult(<<DocLine(v)>>)
        /\ \A v \in HealDocs :
              (v.t = "obj" /\ calls[1].fn = "pp_heal"
                    /\ llm_response.content \in FencedForms(v)) =>
                  heal_result = PpHealResult(<<DocLine(v)>>, prompt)

\* The reply holds prose before or after the JSON (or its fences)
ProseAroundJson ==
    /\ llm_response.k = "content"
    /\ \E i \in 1..Len(llm_response.content) : llm_response.content[i] = ProseLine

\* A GuardResult with its documented fields
WellFormedGuardFields(r) ==
    /\ r["verdict"] \in {Str(<<"proceed">>), Str(<<"heal">>), Str(<<"intervene">>)}
    /\ r["reason"].t = "str"
    /\ r["confidence"].t = "num"
    /\ r["issues"].t = "list"
    /\ \A i \in 1..Len(r["issues"].items) : r["issues"].items[i].t = "str"

\* A HealResult with its documented fields
WellFormedHealFields(r) ==
    /\ r["healed_prompt"].t = "str"
    /\ r["changes_made"].t = "list"
    /\ \A i \in 1..Len(r["changes_made"].items) : r["changes_made"].items[i].t = "str"

\* C18: for a reply with prose around the JSON object pp_guard and pp_heal
\* are not left by an exception and return a result carrying all documented
\* fields: verdict, reason, confidence, issues; healed_prompt, changes_made.
C18_ProseAroundJsonTolerated ==
    ProseAroundJson =>
        /\ pc \in {"pg_except", "ph_except", "g_log", "l_log", "t_done"}
        /\ (ToolReturned /\ calls[1].fn = "pp_guard") => WellFormedGuardFields(guard_result)
        /\ (ToolReturned /\ calls[1].fn = "pp_heal") => WellFormedHealFields(heal_result)

C18_Witness ==
    /\ pc = "t_done"
    /\ calls[1].fn = "pp_guard"
    /\ Len(llm_response.content) > 1
    /\ llm_response.content[1] = ProseLine
    /\ guard_result = GuardErrorResult

\* The prompt holds, in some letter case, a word of the negative-word list as
\* a substring: of the tokens a prompt is made of, only WHATEVER does
HoldsNegativeWord(p) == \E i \in 1..Len(p) : p[i] = "WHATEVER"

\* The anger_translator flag pp_heal reads
AngerTranslatorFlag == LowerFlag(GetEnv(env, "ANGER_TRANSLATOR", "true")) = "true"

\* C19: the instruction template pp_heal dispatches is the anger template
\* when the mode is anger, or the mode is auto, the anger_translator flag is
\* true and the prompt holds a negative word as a substring in any letter
\* case; in every other case (auto otherwise, clarity, an unknown mode) it is
\* the clarity template.
C19_HealTemplateChoice ==
    \A i \in 1..Len(calls) :
        (calls[i].fn = "complete" /\ calls[1].fn = "pp_heal") =>
            calls[i].system =
                IF \/ calls[i].mode = "anger"
                   \/ /\ calls[i].mode = "auto"
                      /\ AngerTranslatorFlag
                      /\ HoldsNegativeWord(calls[i].prompt)
                THEN "PP_HEAL_ANGER_SYSTEM"
                ELSE "PP_HEAL_CLARITY_SYSTEM"

C19_Witness ==
    /\ pc = "t_done"
    /\ calls[1] = Call("pp_heal", <<"a", "WHATEVER">>, "auto", "")
    /\ Len(calls) > 1
    /\ calls[Len(calls)].system = "PP_HEAL_ANGER_SYSTEM"

\* C20: after a failure of the heal invocation the heal result is the prompt
\* passed in, an empty changes list and an error field; and the response
\* process_hook then returns is continue == true with the event's prompt as
\* it arrived.
C20_HealFailureKeepsPrompt ==
    /\ ("heal" \in errors /\ HealReturned) =>
          /\ \A i \in CallsOf("call_mcp_heal") :
                heal_result["healed_prompt"] = Str(calls[i].prompt)
          /\ heal_result["changes_made"] = List(<<>>)
          /\ heal_result["error"] # Absent
    /\ ("heal" \in errors /\ returned) =>
          /\ response.continue = TRUE
          /\ response.prompt = Str(StdinPromptText)

\* C21: pp_heal, for every prompt (the healed_prompt of an earlier result
\* included) and every mode, is never left by an exception and returns a
\* result holding healed_prompt and changes_made; a field the service's JSON
\* object does not have is the default: the prompt passed in, the empty list.
C21_HealTotalAndWellFormed ==
    (calls # <<>> /\ calls[1].fn = "pp_heal") =>
        /\ pc \in {"ph_try", "ph_llm", "ph_except", "l_log", "t_done"}
        /\ pc = "l_log" =>
              /\ heal_result["healed_prompt"] # Absent
              /\ heal_result["changes_made"] # Absent
              /\ (ParsedReply.t = "obj" /\ ParsedReply.d["healed_prompt"] = Absent) =>
                    heal_result["healed_prompt"] = Str(calls[Len(calls)].prompt)
              /\ (ParsedReply.t = "obj" /\ ParsedReply.d["changes_made"] = Absent) =>
                    heal_result["changes_made"] = List(<<>>)

C21_Witness ==
    /\ pc = "l_log"
    /\ Cardinality(CallsOf("pp_heal")) = MaxHeals
    /\ prompt = <<"b">>
    /\ ParsedReply.t = "obj"
    /\ ParsedReply.d["healed_prompt"] = Absent
    /\ ParsedReply.d["changes_made"] # Absent
    /\ heal_result["healed_prompt"] = Str(<<"b">>)
    /\ heal_result["error"] = Absent

\* The documented default of timeout_secs, 30.0, in tenths of a second
DocumentedTimeoutTenths == 300

\* C22: CONFIG always holds the three tunables; a tunable the environment
\* does not supply has its documented default (true, true, 30.0); and when
\* load_hook_config raises, CONFIG holds the three documented defaults.
C22_ConfigDefaults ==
    /\ CONFIG.t = "ok"
    /\ env["AUTO_CAST_HEAL"] = Unset => CONFIG.auto_cast_heal = TRUE
    /\ env["ANGER_TRANSLATOR"] = Unset => CONFIG.anger_translator = TRUE
    /\ env["HOOK_TIMEOUT_SECS"] = Unset =>
          CONFIG.timeout_secs = [t |-> "num", tenths |-> DocumentedTimeoutTenths]
    /\ load_hook_config(env).t = "error" =>
          /\ CONFIG.auto_cast_heal = TRUE
          /\ CONFIG.anger_translator = TRUE
          /\ CONFIG.timeout_secs = [t |-> "num", tenths |-> DocumentedTimeoutTenths]

\* timeout=25.0 handed to call_mcp_guard and to call_mcp_heal, in tenths
GuardCallTimeoutTenths == 250

HealCallTimeoutTenths == 250

\* C23: once main() has armed the alarm, the hard deadline is armed and is
\* strictly longer than the judge call timeout plus the heal call timeout.
C23_DeadlineExceedsCallTimeouts ==
    (pc # "m_start" /\ CONFIG.timeout_secs.t = "num") =>
        /\ alarm # "off"
        /\ AlarmSeconds(CONFIG) * 10 > GuardCallTimeoutTenths + HealCallTimeoutTenths

\* The calls of provider.complete() made in judge mode and in heal mode
JudgeCompletes == {i \in CallsOf("complete") : calls[i].system = "PP_GUARD_SYSTEM"}

HealCompletes == CallsOf("complete") \ JudgeCompletes

\* C27: one hook invocation calls the service at most once in judge mode and
\* at most once in heal mode, and a heal call is made only after a judge call
\* whose result has verdict "heal", with auto_cast_heal true.
C27_SingleAttemptJudgeThenHeal ==
    /\ Cardinality(JudgeCompletes) <= 1
    /\ Cardinality(HealCompletes) <= 1
    /\ Cardinality(CallsOf("call_mcp_guard")) <= 1
    /\ Cardinality(CallsOf("call_mcp_heal")) <= 1
    /\ \A i \in HealCompletes \cup CallsOf("call_mcp_heal") \cup CallsOf("pp_heal") :
          /\ \E j \in JudgeCompletes : j < i
          /\ guard_result["verdict"] = Str(<<"heal">>)
          /\ CONFIG.auto_cast_heal

\* The judge call succeeded with verdict heal, the heal call failed, and the
\* hook finished without calling the service again.
C27_Witness ==
    /\ Terminated
    /\ Cardinality(JudgeCompletes) = 1
    /\ Cardinality(HealCompletes) = 1
    /\ "heal" \in errors

\* Standard input holds nothing, only whitespace, or text that is not JSON
UnreadableStdin == stdin.kind \in {"blank", "invalid"}

\* C29: when standard input is empty, whitespace or not JSON, no judge or
\* heal call is made, the response process_hook returns is the blocking
\* empty-prompt response, and unless the hard deadline fired or main() crashed
\* before its try block that response is the only thing written to stdout.
C29_UnreadableStdinBlocked ==
    UnreadableStdin =>
        /\ calls = <<>>
        /\ pc # "m_exc"
        /\ returned => response = EmptyPromptResponse
        /\ (pc = "m_done" /\ fired_at = "none") => stdout = <<EmptyPromptResponse>>

C29_Witness ==
    /\ stdin.kind = "invalid"
    /\ pc = "m_done"
    /\ stdout = <<EmptyPromptResponse>>
    /\ EmptyPromptResponse.continue = FALSE
    /\ EmptyPromptResponse.userMessage = Str(EmptyPromptMessage)

\* C30: the template of every heal-mode service call of a hook invocation is
\* the one the auto mode selects with the anger_translator field of CONFIG,
\* the configuration the hook loaded at process start.
C30_HealTemplateFollowsHookConfig ==
    \A i \in HealCompletes :
        calls[i].system = HealTemplate(heal_mode, CONFIG, calls[i].prompt)

\* The tokens that open a new path component
ComponentTokens == {"/hooks/run.sh", "/hooks/before_submit_prompt.py", "/hook.sh"}

\* path names a file below the directory root
PathUnder(root, path) ==
    /\ Len(path) > Len(root)
    /\ SubSeq(path, 1, Len(root)) = root
    /\ path[Len(root) + 1] \in ComponentTokens

\* The entry runs a file of this project
BelongsToProject(hook) ==
    \/ hook.command.t = "str" /\ PathUnder(project_root, hook.command.s)
    \/ /\ hook.args.t = "list"
       /\ \E i \in 1..Len(hook.args.items) : PathUnder(project_root, hook.args.items[i].s)

\* The beforeSubmitPrompt list of a file, empty when there is none
FileHooks(file) == IF file.f = "json" THEN BeforeSubmitHooks(file.v) ELSE <<>>

\* This project's entries in a file
OwnEntries(file) == {i \in 1..Len(FileHooks(file)) : BelongsToProject(FileHooks(file)[i])}

\* Run i really ran (no --dry-run), as tool, and returned 0
RanWell(i, tool) == runs[i].tool = tool /\ ~runs[i].dry_run /\ runs[i].rc = 0

\* C24: starting from a valid or missing hooks.json, a successful install
\* leaves exactly one entry of this project; a second install without --force
\* (with the wrapper and the venv still there) finds it present, writes
\* nothing and leaves the file as it was; a second uninstall leaves the file as the first left it and returns 0.
C24_InstallUninstallIdempotent ==
    (runs # <<>> /\ runs[1].before # Corrupt) =>
        /\ \A i \in 1..Len(runs) :
              RanWell(i, "install") => Cardinality(OwnEntries(runs[i].after)) = 1
        /\ \A i \in 1..(Len(runs) - 1) :
              (/\ RanWell(i, "install")
               /\ runs[i + 1].tool = "install"
               /\ ~runs[i + 1].flag
               /\ runs[i + 1].action # "refused") =>
                  /\ runs[i + 1].action = "present"
                  /\ runs[i + 1].after = runs[i].after
                  /\ runs[i + 1].rc = 0
        /\ \A i \in 1..(Len(runs) - 1) :
              (RanWell(i, "uninstall") /\ runs[i + 1].tool = "uninstall") =>
                  /\ runs[i + 1].after = runs[i].after
                  /\ runs[i + 1].rc = 0

\* The beforeSubmitPrompt entries of a file that are not this project's, in order
ForeignEntries(file) == SelectSeq(FileHooks(file), LAMBDA hook : ~BelongsToProject(hook))

\* The entries a file holds under the other hook types
OtherTypeEntries(file) ==
    IF file.f = "json" /\ file.v.hooks # Absent /\ file.v.hooks.afterFileEdit # Absent
    THEN file.v.hooks.afterFileEdit.items
    ELSE <<>>

\* What else a file holds at top level
TopLevelContent(file) == IF file.f = "json" THEN file.v.extra ELSE Absent

\* C25: every install or uninstall run leaves the beforeSubmitPrompt entries
\* of other tools, the entries of the other hook types and the other
\* top-level content of hooks.json as it found them.
C25_OtherToolsPreserved ==
    \A i \in 1..Len(runs) :
        /\ ForeignEntries(runs[i].after) = ForeignEntries(runs[i].before)
        /\ OtherTypeEntries(runs[i].after) = OtherTypeEntries(runs[i].before)
        /\ TopLevelContent(runs[i].after) = TopLevelContent(runs[i].before)

\* Every finished run that changed or deleted an existing hooks.json made a
\* backup copy of the file it found
BackedUpBeforeChange ==
    \A i \in 1..Len(runs) :
        (runs[i].after # runs[i].before /\ runs[i].before # Missing) =>
            /\ runs[i].backed_up
            /\ \E k \in 1..Len(backups) : backups[k] = runs[i].before

\* The run that just finished with return code 1 left hooks.json as it found
\* it and left no temporary file
FailedRunLeavesNoTrace ==
    (pc = "i_idle" /\ runs # <<>> /\ runs[Len(runs)].rc = 1) =>
        /\ runs[Len(runs)].after = runs[Len(runs)].before
        /\ hooks_json = runs[Len(runs)].before
        /\ tmp_file = Missing

\* A step that gives hooks.json new content renames the fully written
\* temporary file onto it
ChangeIsRename ==
    (hooks_json' # hooks_json /\ hooks_json' # Missing) =>
        /\ tmp_file = Json(run.config)
        /\ hooks_json' = tmp_file
        /\ tmp_file' = Missing

\* C26: hooks.json is changed or deleted only after a backup copy of it was
\* made, new content appears only by renaming the written temporary file,
\* and a failed run returns 1 with hooks.json unchanged and no temporary file.
C26_AtomicWriteWithBackup ==
    /\ [](BackedUpBeforeChange /\ FailedRunLeavesNoTrace)
    /\ [][ChangeIsRename]_vars

\* The outcomes of the search after which a run goes on to write or delete
WritingActions == {"install", "update", "reinstall", "write", "delete"}

\* The step finishes a run made with --dry-run
FinishesDryRun == Len(runs') > Len(runs) /\ runs'[Len(runs')].dry_run

\* C28: a run with --dry-run never gets past its preview: the step that
\* finishes it leaves hooks.json, the backups and the temporary file as they
\* were, and returns 0 whenever the run without --dry-run would have gone on
\* to write or delete.
C28_DryRunChangesNothing ==
    [][/\ run'.tool # "none" => ~run'.dry_run
       /\ FinishesDryRun =>
            /\ hooks_json' = hooks_json
            /\ backups' = backups
            /\ tmp_file' = tmp_file
            /\ runs'[Len(runs')].after = runs'[Len(runs')].before
            /\ runs'[Len(runs')].action \in WritingActions => runs'[Len(runs')].rc = 0]_vars

\* A previewed update of an older registration and a previewed removal, each
\* returning 0 with hooks.json as it was
C28_Witness ==
    /\ Len(runs) = 2
    /\ runs[1].tool = "install" /\ runs[1].dry_run /\ runs[1].action = "update"
    /\ runs[2].tool = "uninstall" /\ runs[2].dry_run /\ runs[2].action = "delete"
    /\ runs[1].rc = 0 /\ runs[2].rc = 0
    /\ hooks_json = runs[1].before
    /\ backups = <<>>
    /\ tmp_file = Missing

====
